---- MODULE Spec2Model ----
(***************************************************************************)
(* Model of the Aegis MCP server (src/rust/src/main.rs): a line-oriented   *)
(* JSON-RPC dispatcher reading stdin, writing replies to stdout and        *)
(* diagnostics to the tracing writer.                                      *)
(***************************************************************************)
EXTENDS Integers, Sequences, FiniteSets, TLC

\* ------------------------------------------------------------------ bounds
\* Longest input stream explored (number of lines read from stdin).
MaxLines == 3

\* Longest input stream explored when the lines are drawn from ShapeLines.
MaxShapeLines == 2

\* Longest input stream explored when the lines are drawn from LiveLines.
MaxLiveLines == 3

\* ------------------------------------------------------- JSON values
\* A serde_json::Value is a record [t, v]: t is the JSON type, v the payload
\* (a string for scalars; a record for the objects the server builds).
JStr(s) == [t |-> "string", v |-> s]
JNum(s) == [t |-> "number", v |-> s]
JNull == [t |-> "null", v |-> ""]
\* A key that is not in the JSON document at all.
Absent == [t |-> "absent", v |-> ""]

\* Option<T>
Some(x) == [some |-> TRUE, val |-> x]
None == [some |-> FALSE, val |-> JNull]

\* Value::as_str: Some only for a JSON string.
as_str(val) == IF val.t = "string" THEN Some(val.v) ELSE None

\* serde's Deserialize for Option<Value>: a missing key and an explicit null
\* both become None, anything else is Some(value).
OptionOfField(val) == IF val.t \in {"absent", "null"} THEN None ELSE Some(val)

\* serde's Deserialize for String: the key must be present and a JSON string.
IsStringField(val) == val.t = "string"

\* ------------------------------------------------------- program constants
MCP_VERSION == "2024-11-05"
ServerName == "aegis-mcp-server"
ServerVersion == "0.1.0"
\* The code every error reply carries (handle_request).
InternalErrorCode == -32603

\* ------------------------------------------------------- input lines
\* The arguments value of a tools/call: kind says whether params carries an
\* "arguments" key; the other fields are the keys of the arguments object.
NoArgs == [kind |-> "absent", name |-> Absent, policy |-> Absent, agent |-> Absent,
           action |-> Absent, resource |-> Absent, context |-> Absent]
EmptyArgs == [NoArgs EXCEPT !.kind = "object"]
HelloArgs == [EmptyArgs EXCEPT !.name = JStr("Ada")]

\* The params value of a message: kind is "absent" (no params key), "null"
\* or "object"; name and arguments are the keys of the params object.
NoParams == [kind |-> "absent", name |-> Absent, arguments |-> NoArgs]
ParamsObj(n, a) == [kind |-> "object", name |-> n, arguments |-> a]

\* One line of stdin.  form = "text": the characters in text are not a JSON
\* document.  form = "json": a JSON object with the keys jsonrpc, id, method,
\* params (each possibly Absent).
TextLine(s) == [form |-> "text", text |-> s, jsonrpc |-> Absent, id |-> Absent,
                method |-> Absent, params |-> NoParams]
JsonLine(v, i, m, p) == [form |-> "json", text |-> "", jsonrpc |-> v, id |-> i,
                         method |-> m, params |-> p]

KnownMethods == {"initialize", "tools/list", "tools/call", "notifications/initialized"}
UnknownMethod == "resources/list"

\* The params of the tools/call requests: none, no tool name, an
\* unregistered tool, hello_world, and check_policy without and with its
\* required arguments.
CallParams == {NoParams,
               ParamsObj(Absent, EmptyArgs),
               ParamsObj(JStr("nonexistent"), EmptyArgs),
               ParamsObj(JStr("hello_world"), HelloArgs),
               ParamsObj(JStr("check_policy"), EmptyArgs)}

\* The lines stdin may deliver: blank and non-JSON text, a JSON object with
\* no method, and messages of every method with an identifier (a number or
\* a string) and without one (id omitted or null).
Lines ==
    {TextLine(""), TextLine("not-json")}
    \cup {JsonLine(JStr("2.0"), JNum("1"), Absent, NoParams)}
    \cup {JsonLine(JStr("2.0"), i, JStr("initialize"), NoParams) : i \in {JNull, JNum("1")}}
    \cup {JsonLine(JStr("2.0"), i, JStr(m), NoParams) :
            i \in {Absent, JNum("1")}, m \in {"tools/list", "notifications/initialized"}}
    \cup {JsonLine(JStr("2.0"), i, JStr(UnknownMethod), NoParams) : i \in {Absent, JStr("a")}}
    \cup {JsonLine(JStr("2.0"), JNum("1"), JStr("tools/call"), p) : p \in CallParams}
    \cup {JsonLine(JStr("2.0"), Absent, JStr("tools/call"), NoParams)}

\* Arguments of check_policy: the three required strings, and the same with
\* the optional agent and context.
PolicyArgs == [EmptyArgs EXCEPT !.policy = JStr("admins only"), !.action = JStr("read"),
               !.resource = JStr("/etc/passwd")]
FullPolicyArgs == [PolicyArgs EXCEPT !.agent = JStr("alice"),
                                     !.context = [t |-> "object", v |-> "{}"]]

\* The params of tools/call requests that vary the arguments value: absent,
\* empty, and with one required key left out.
ShapeCallParams ==
    {ParamsObj(JStr("hello_world"), a) : a \in {NoArgs, EmptyArgs, HelloArgs}}
    \cup {ParamsObj(JStr("check_policy"), a) :
            a \in {NoArgs, PolicyArgs, FullPolicyArgs,
                   [PolicyArgs EXCEPT !.policy = Absent],
                   [PolicyArgs EXCEPT !.action = Absent],
                   [PolicyArgs EXCEPT !.resource = Absent]}}
    \cup {ParamsObj(JStr("nonexistent"), EmptyArgs)}

\* Lines that vary the shape of one message: blank and whitespace-only
\* text, non-JSON text, documents without a jsonrpc or a method key or with
\* another protocol tag, and tools/call requests with every form of
\* arguments.
ShapeLines ==
    {TextLine(""), TextLine("  "), TextLine("not-json")}
    \cup {JsonLine(JStr("2.0"), JNum("1"), Absent, NoParams),
          JsonLine(Absent, JNum("1"), JStr("initialize"), NoParams),
          JsonLine(JStr("1.0"), JNum("1"), JStr("initialize"), NoParams),
          JsonLine(JStr("1.0"), Absent, JStr("tools/list"), NoParams),
          JsonLine(JStr("2.0"), Absent, JStr("notifications/initialized"), NoParams),
          JsonLine(JStr("2.0"), JStr("a"), JStr(UnknownMethod), NoParams)}
    \cup {JsonLine(JStr("2.0"), JNum("1"), JStr("tools/call"), p) : p \in ShapeCallParams}

\* One line of each way an iteration of the loop can go: blank, decode
\* failure, unknown method, handler error, success, notification.
LiveLines ==
    {TextLine(""), TextLine("not-json"),
     JsonLine(JStr("2.0"), JStr("a"), JStr(UnknownMethod), NoParams),
     JsonLine(JStr("2.0"), JNum("1"), JStr("tools/call"),
              ParamsObj(JStr("nonexistent"), EmptyArgs)),
     JsonLine(JStr("2.0"), JNum("1"), JStr("tools/call"),
              ParamsObj(JStr("hello_world"), HelloArgs)),
     JsonLine(JStr("2.0"), Absent, JStr("notifications/initialized"), NoParams)}

\* ------------------------------------------------------- Message Codec
\* Mutant of IsBlank: is_empty() without the trim().
IsBlank_noTrim(line) == line.form = "text" /\ line.text = ""

\* str::trim().is_empty(): the text lines of Lines that consist of
\* whitespace only.
IsBlank(line) == line.form = "text" /\ line.text \in {"", "  "}

\* serde_json::from_str::<JsonRpcRequest>: jsonrpc and method are required
\* strings (any string), id and params are optional.
decode(line) ==
    IF line.form = "json" /\ IsStringField(line.jsonrpc) /\ IsStringField(line.method)
    THEN [ok |-> TRUE,
          req |-> [jsonrpc |-> line.jsonrpc.v,
                   id |-> OptionOfField(line.id),
                   method |-> line.method.v,
                   params |-> IF line.params.kind = "object"
                              THEN Some(line.params) ELSE [some |-> FALSE, val |-> NoParams]]]
    ELSE [ok |-> FALSE,
          req |-> [jsonrpc |-> "", id |-> None, method |-> "",
                   params |-> [some |-> FALSE, val |-> NoParams]]]

\* ------------------------------------------------------- diagnostics
\* One tracing event: level, the fixed part of its message, its argument.
Diag(level, msg, arg) == [level |-> level, msg |-> msg, arg |-> arg]

\* anyhow::Result<Value> of a handler, with what the call left behind:
\* logs are the tracing events it emitted, invoked the tool handler that
\* call_tool entered ("none" when no tool handler ran).
Ok(val, logs, tool) ==
    [ok |-> TRUE, val |-> val, err |-> [msg |-> "", arg |-> ""], logs |-> logs, invoked |-> tool]
Err(msg, arg, logs, tool) ==
    [ok |-> FALSE, val |-> JNull, err |-> [msg |-> msg, arg |-> arg], logs |-> logs,
     invoked |-> tool]

JObj(rec) == [t |-> "object", v |-> rec]

\* ------------------------------------------------------- handlers
initialize(params) ==
    Ok(JObj([protocolVersion |-> MCP_VERSION,
             serverInfo |-> [name |-> ServerName, version |-> ServerVersion],
             capabilities |-> {"tools"}]),
       <<Diag("info", "Initializing Aegis MCP Server", ""),
         Diag("debug", "Initialize params", "")>>,
       "none")

\* The two Tool structs of list_tools.
HelloWorldTool ==
    [name |-> "hello_world",
     description |-> "Returns a hello world message with the provided name",
     input_schema |-> [type |-> "object",
                       properties |-> <<"name">>,
                       required |-> <<"name">>]]
CheckPolicyTool ==
    [name |-> "check_policy",
     description |-> "AI-powered natural language policy checker",
     input_schema |-> [type |-> "object",
                       properties |-> <<"policy", "agent", "action", "resource", "context">>,
                       required |-> <<"policy", "action", "resource">>]]

\* Mutant of Tools: the descriptors in the opposite order.
Tools_reversed == <<CheckPolicyTool, HelloWorldTool>>

\* The vec! of Tool structs built by list_tools, in registration order.
Tools == <<HelloWorldTool, CheckPolicyTool>>

\* #[derive(Serialize)] of Tool: input_schema is renamed to inputSchema.
SerializeTool(tool) ==
    [name |-> tool.name, description |-> tool.description, inputSchema |-> tool.input_schema]

list_tools ==
    Ok(JObj([tools |-> [i \in 1..Len(Tools) |-> SerializeTool(Tools[i])]]),
       <<Diag("info", "Listing tools", "")>>,
       "none")

\* Value's Index by key: Null when the value is not an object or has no
\* such key.
ArgIndex(args, key) ==
    IF args.kind = "object" /\ args[key].t # "absent" THEN args[key] ELSE JNull

\* Value::get: None when the value is not an object or has no such key.
ArgGet(args, key) ==
    IF args.kind = "object" /\ args[key].t # "absent" THEN Some(args[key]) ELSE None

ToolContent(parts) == JObj([content |-> <<[type |-> "text", text |-> parts]>>])

handle_hello_world(args) ==
    LET n == as_str(ArgIndex(args, "name"))
        name == IF n.some THEN n.val ELSE "World"
    IN Ok(ToolContent(<<"Hello, ", name, "! Welcome to Aegis MCP Server (Rust Edition)">>),
          <<Diag("info", "Greeting", name)>>,
          "hello_world")

handle_check_policy(args) ==
    LET policy == as_str(ArgIndex(args, "policy"))
        a == as_str(ArgIndex(args, "agent"))
        agent == IF a.some THEN a.val ELSE "unknown-agent"
        action == as_str(ArgIndex(args, "action"))
        resource == as_str(ArgIndex(args, "resource"))
        context == ArgGet(args, "context")
    IN IF ~policy.some THEN Err("Missing policy", "", <<>>, "check_policy")
       ELSE IF ~action.some THEN Err("Missing action", "", <<>>, "check_policy")
       ELSE IF ~resource.some THEN Err("Missing resource", "", <<>>, "check_policy")
       ELSE Ok(ToolContent(<<"# Policy Evaluation Request", policy.val, agent, action.val,
                             resource.val,
                             IF context.some THEN "## Additional Context" ELSE "",
                             "## Required Response Format">>),
               <<Diag("info", "Policy check request:", ""),
                 Diag("info", "  Agent", agent),
                 Diag("info", "  Action", action.val),
                 Diag("info", "  Resource", resource.val),
                 Diag("debug", "  Policy", policy.val),
                 Diag("debug", "  Context", "")>>,
               "check_policy")

\* Mutant of match_tool: an unregistered name falls back to hello_world.
match_tool_fallback(tool_name, arguments) ==
    IF tool_name = "check_policy" THEN handle_check_policy(arguments)
    ELSE handle_hello_world(arguments)

\* Mutant of match_tool: check_policy is listed but has no arm.
match_tool_helloOnly(tool_name, arguments) ==
    IF tool_name = "hello_world" THEN handle_hello_world(arguments)
    ELSE Err("Unknown tool", tool_name, <<>>, "none")

\* The match on tool_name that ends call_tool.
match_tool(tool_name, arguments) ==
    IF tool_name = "hello_world" THEN handle_hello_world(arguments)
    ELSE IF tool_name = "check_policy" THEN handle_check_policy(arguments)
    ELSE Err("Unknown tool", tool_name, <<>>, "none")

call_tool(params) ==
    IF ~params.some THEN Err("Missing parameters for tool call", "", <<>>, "none")
    ELSE LET tool_name == as_str(IF params.val.name.t = "absent" THEN JNull
                                 ELSE params.val.name)
             arguments == params.val.arguments
             logs == <<Diag("info", "Calling tool", tool_name.val),
                       Diag("debug", "Arguments", "")>>
             r == match_tool(tool_name.val, arguments)
         IN IF ~tool_name.some THEN Err("Missing tool name", "", <<>>, "none")
            ELSE [r EXCEPT !.logs = logs \o r.logs]

\* ------------------------------------------------------- Dispatch Table
\* JsonRpcResponse: id, result and error are Options.
NoError == [code |-> 0, message |-> [msg |-> "", arg |-> ""]]
NoneError == [some |-> FALSE, val |-> NoError]
Response(id, result, error) == [jsonrpc |-> "2.0", id |-> id, result |-> result, error |-> error]

\* Mutant of InitializedResponse: the request's id is kept on the response.
InitializedResponse_keepId(request) == Response(request.id, None, NoneError)

\* The response returned early for notifications/initialized.
InitializedResponse(request) == Response(None, None, NoneError)

\* The Ok arm of handle_request's final match.
OkResponse(id, val) == Response(id, Some(val), NoneError)

\* Mutant of ErrResponse: the error reply loses the request's id.
ErrResponse_nullId(id, err) ==
    Response(None, None, Some([code |-> InternalErrorCode, message |-> err]))

\* Mutant of ErrResponse: the error reply also carries a null result.
ErrResponse_withResult(id, err) ==
    Response(id, Some(JNull), Some([code |-> InternalErrorCode, message |-> err]))

\* The Err arm of handle_request's final match.
ErrResponse(id, err) == Response(id, None, Some([code |-> InternalErrorCode, message |-> err]))

\* The result of a method that matches no arm of the dispatch.
MethodNotFound(method) ==
    Err("Method not found", method, <<Diag("warn", "Unknown method", method)>>, "none")

\* handle_request, with the tracing events and the tool invocation of the
\* call: [response, logs, invoked].
handle_request(request) ==
    LET id == request.id
        m == request.method
        result ==
            IF m = "initialize" THEN initialize(request.params)
            ELSE IF m = "tools/list" THEN list_tools
            ELSE IF m = "tools/call" THEN call_tool(request.params)
            ELSE MethodNotFound(m)
    IN IF m = "notifications/initialized"
       THEN [response |-> InitializedResponse(request), logs |-> <<>>, invoked |-> "none"]
       ELSE IF result.ok
       THEN [response |-> OkResponse(id, result.val), logs |-> result.logs,
             invoked |-> result.invoked]
       ELSE [response |-> ErrResponse(id, result.err),
             logs |-> result.logs \o <<Diag("error", "Error handling request", result.err.msg)>>,
             invoked |-> result.invoked]

\* Mutant of encode: id is skipped when None, like result and error.
encode_skipNoneId(response) ==
    [keys |-> {"jsonrpc"}
              \cup (IF response.id.some THEN {"id"} ELSE {})
              \cup (IF response.result.some THEN {"result"} ELSE {})
              \cup (IF response.error.some THEN {"error"} ELSE {}),
     jsonrpc |-> response.jsonrpc,
     id |-> IF response.id.some THEN response.id.val ELSE JNull,
     result |-> response.result.val,
     error |-> response.error.val]

\* #[derive(Serialize)] of JsonRpcResponse, as the JSON document on the
\* wire: keys lists the members present.  id is always serialized (null for
\* None); result and error are skipped when None.
encode(response) ==
    [keys |-> {"jsonrpc", "id"}
              \cup (IF response.result.some THEN {"result"} ELSE {})
              \cup (IF response.error.some THEN {"error"} ELSE {}),
     jsonrpc |-> response.jsonrpc,
     id |-> IF response.id.some THEN response.id.val ELSE JNull,
     result |-> response.result.val,
     error |-> response.error.val]

\* Mutant of ShouldSend: every response is sent.
ShouldSend_always(response) == TRUE

\* run's condition for sending a response.
ShouldSend(response) == response.id.some \/ response.result.some \/ response.error.some

\* ------------------------------------------------------- Session Loop
VARIABLES
    inp,        \* the lines read from stdin so far, in order
    pc,         \* position in the loop body: "read", "handle", "send"
    status,     \* "running"; "done" (run returned Ok); "failed" (run returned Err)
    response,   \* the JsonRpcResponse of the line being processed
    stdout,     \* what has been written to stdout, in order
    flushed,    \* how many entries of stdout have been flushed
    stderr,     \* what has been written to stderr, in order
    calls       \* the tool handlers entered, as [src, tool], in order

vars == <<inp, pc, status, response, stdout, flushed, stderr, calls>>

\* Mutant of LogWriter: tracing is left on its default writer, stdout.
LogWriter_stdout == "stdout"

\* The writer given to tracing_subscriber in main.
LogWriter == "stderr"

NoDiag == Diag("", "", "")
NoResponse == Response(None, None, NoneError)

\* An entry of a stream: a reply line (kind "response", doc the JSON
\* document) or a tracing event (kind "log"); src is the number of the input
\* line being processed when it was written (0: before the first line).
ReplyEntry(k, resp) == [kind |-> "response", src |-> k, doc |-> encode(resp), diag |-> NoDiag]
LogEntry(k, d) == [kind |-> "log", src |-> k, doc |-> encode(NoResponse), diag |-> d]

\* The entries that tracing appends to the given stream for these events.
Logged(stream, k, events) ==
    IF LogWriter = stream THEN [i \in 1..Len(events) |-> LogEntry(k, events[i])] ELSE <<>>

Startup == <<Diag("info", "Aegis MCP Server starting...", ""),
             Diag("info", "Protocol Version", MCP_VERSION),
             Diag("info", "Listening on stdio...", "")>>

Init ==
    /\ inp = <<>>
    /\ pc = "read"
    /\ status = "running"
    /\ response = NoResponse
    /\ stdout = Logged("stdout", 0, Startup)
    /\ flushed = 0
    /\ stderr = Logged("stderr", 0, Startup)
    /\ calls = <<>>

\* The line the loop body is working on, and its number.
CurLine == inp[Len(inp)]
CurNo == Len(inp)

Log(events) ==
    /\ stdout' = stdout \o Logged("stdout", CurNo, events)
    /\ stderr' = stderr \o Logged("stderr", CurNo, events)

\* reader.lines() yields the next line.
ReadLine ==
    /\ status = "running" /\ pc = "read"
    /\ Len(inp) < MaxLines
    /\ \E line \in Lines : inp' = Append(inp, line)
    /\ pc' = "handle"
    /\ UNCHANGED <<status, response, stdout, flushed, stderr, calls>>

\* reader.lines() yields the next line, drawn from ShapeLines.
ReadShapeLine ==
    /\ status = "running" /\ pc = "read"
    /\ Len(inp) < MaxShapeLines
    /\ \E line \in ShapeLines : inp' = Append(inp, line)
    /\ pc' = "handle"
    /\ UNCHANGED <<status, response, stdout, flushed, stderr, calls>>

\* reader.lines() yields the next line, drawn from LiveLines.
ReadLiveLine ==
    /\ status = "running" /\ pc = "read"
    /\ Len(inp) < MaxLiveLines
    /\ \E line \in LiveLines : inp' = Append(inp, line)
    /\ pc' = "handle"
    /\ UNCHANGED <<status, response, stdout, flushed, stderr, calls>>

\* reader.lines() is exhausted: the for loop ends and run returns Ok(()).
ReadEof ==
    /\ status = "running" /\ pc = "read"
    /\ status' = "done"
    /\ UNCHANGED <<inp, pc, response, stdout, flushed, stderr, calls>>

\* reader.lines() yields an Err: run returns it through `?`.
ReadFail ==
    /\ status = "running" /\ pc = "read"
    /\ status' = "failed"
    /\ UNCHANGED <<inp, pc, response, stdout, flushed, stderr, calls>>

\* Mutant of SkipEmptyLine: a blank line ends the loop with an error.
SkipEmptyLine_abort ==
    /\ status = "running" /\ pc = "handle"
    /\ IsBlank(CurLine)
    /\ status' = "failed"
    /\ UNCHANGED <<inp, pc, response, stdout, flushed, stderr, calls>>

\* line.trim().is_empty(): continue.
SkipEmptyLine ==
    /\ status = "running" /\ pc = "handle"
    /\ IsBlank(CurLine)
    /\ pc' = "read"
    /\ UNCHANGED <<inp, status, response, stdout, flushed, stderr, calls>>

\* Mutant of ParseFailure: the decode error is propagated with `?`.
ParseFailure_abort ==
    /\ status = "running" /\ pc = "handle"
    /\ ~IsBlank(CurLine)
    /\ ~decode(CurLine).ok
    /\ Log(<<Diag("debug", "Received", ""), Diag("error", "Failed to parse request", "")>>)
    /\ status' = "failed"
    /\ UNCHANGED <<inp, pc, response, flushed, calls>>

\* serde_json::from_str fails: log and continue.
ParseFailure ==
    /\ status = "running" /\ pc = "handle"
    /\ ~IsBlank(CurLine)
    /\ ~decode(CurLine).ok
    /\ Log(<<Diag("debug", "Received", ""), Diag("error", "Failed to parse request", "")>>)
    /\ pc' = "read"
    /\ UNCHANGED <<inp, status, response, flushed, calls>>

\* Mutant of HandleRequest: the server remembers whether initialize has been
\* received and refuses tools/list and tools/call before it.
HandleRequest_needsInitialize ==
    /\ status = "running" /\ pc = "handle"
    /\ ~IsBlank(CurLine)
    /\ decode(CurLine).ok
    /\ LET req == decode(CurLine).req
           initialized == \E k \in 1..(Len(inp) - 1) :
                             decode(inp[k]).ok /\ decode(inp[k]).req.method = "initialize"
           h == IF req.method \in {"tools/list", "tools/call"} /\ ~initialized
                THEN [response |-> ErrResponse(req.id, [msg |-> "Server not initialized",
                                                        arg |-> ""]),
                      logs |-> <<>>, invoked |-> "none"]
                ELSE handle_request(req)
       IN /\ response' = h.response
          /\ Log(<<Diag("debug", "Received", "")>> \o h.logs)
          /\ calls' = IF h.invoked = "none" THEN calls
                      ELSE Append(calls, [src |-> CurNo, tool |-> h.invoked])
    /\ pc' = "send"
    /\ UNCHANGED <<inp, status, flushed>>

\* The line decodes: response = self.handle_request(request).
HandleRequest ==
    /\ status = "running" /\ pc = "handle"
    /\ ~IsBlank(CurLine)
    /\ decode(CurLine).ok
    /\ LET h == handle_request(decode(CurLine).req)
       IN /\ response' = h.response
          /\ Log(<<Diag("debug", "Received", "")>> \o h.logs)
          /\ calls' = IF h.invoked = "none" THEN calls
                      ELSE Append(calls, [src |-> CurNo, tool |-> h.invoked])
    /\ pc' = "send"
    /\ UNCHANGED <<inp, status, flushed>>

\* The response is not to be sent: next iteration.
SkipResponse ==
    /\ status = "running" /\ pc = "send"
    /\ ~ShouldSend(response)
    /\ pc' = "read"
    /\ response' = NoResponse
    /\ UNCHANGED <<inp, status, stdout, flushed, stderr, calls>>

\* Mutant of SendResponse: the reply is written but stdout is not flushed.
SendResponse_noFlush ==
    /\ status = "running" /\ pc = "send"
    /\ ShouldSend(response)
    /\ stdout' = (stdout \o Logged("stdout", CurNo, <<Diag("debug", "Sending", "")>>))
                 \o <<ReplyEntry(CurNo, response)>>
    /\ stderr' = stderr \o Logged("stderr", CurNo, <<Diag("debug", "Sending", "")>>)
    /\ pc' = "read"
    /\ response' = NoResponse
    /\ UNCHANGED <<inp, status, flushed, calls>>

\* The response is serialized, written with writeln! and flushed.
SendResponse ==
    /\ status = "running" /\ pc = "send"
    /\ ShouldSend(response)
    /\ stdout' = (stdout \o Logged("stdout", CurNo, <<Diag("debug", "Sending", "")>>))
                 \o <<ReplyEntry(CurNo, response)>>
    /\ stderr' = stderr \o Logged("stderr", CurNo, <<Diag("debug", "Sending", "")>>)
    /\ flushed' = Len(stdout')
    /\ pc' = "read"
    /\ response' = NoResponse
    /\ UNCHANGED <<inp, status, calls>>

\* Mutant of WriteFail: the write error is dropped and the loop goes on.
WriteFail_continue ==
    /\ status = "running" /\ pc = "send"
    /\ ShouldSend(response)
    /\ Log(<<Diag("debug", "Sending", "")>>)
    /\ pc' = "read"
    /\ response' = NoResponse
    /\ UNCHANGED <<inp, status, flushed, calls>>

\* writeln! fails: nothing is written and run returns the Err.
WriteFail ==
    /\ status = "running" /\ pc = "send"
    /\ ShouldSend(response)
    /\ Log(<<Diag("debug", "Sending", "")>>)
    /\ status' = "failed"
    /\ UNCHANGED <<inp, pc, response, flushed, calls>>

\* writeln! succeeds but stdout.flush() fails: run returns the Err.
FlushFail ==
    /\ status = "running" /\ pc = "send"
    /\ ShouldSend(response)
    /\ stdout' = (stdout \o Logged("stdout", CurNo, <<Diag("debug", "Sending", "")>>))
                 \o <<ReplyEntry(CurNo, response)>>
    /\ stderr' = stderr \o Logged("stderr", CurNo, <<Diag("debug", "Sending", "")>>)
    /\ status' = "failed"
    /\ UNCHANGED <<inp, pc, response, flushed, calls>>

Next ==
    \/ ReadLine
    \/ ReadEof
    \/ ReadFail
    \/ SkipEmptyLine
    \/ ParseFailure
    \/ HandleRequest
    \/ SkipResponse
    \/ SendResponse
    \/ WriteFail
    \/ FlushFail

Spec == Init /\ [][Next]_vars

\* The same loop fed with the lines of ShapeLines.
NextShapes ==
    \/ ReadShapeLine
    \/ ReadEof
    \/ ReadFail
    \/ SkipEmptyLine
    \/ ParseFailure
    \/ HandleRequest
    \/ SkipResponse
    \/ SendResponse
    \/ WriteFail
    \/ FlushFail

SpecShapes == Init /\ [][NextShapes]_vars

\* The loop on streams that do not fail: stdin delivers its lines and then
\* ends, every write and flush succeeds.  The loop is a sequential program
\* that takes its next step whenever it has one, and a finite stdin ends.
NextLive ==
    \/ ReadLiveLine
    \/ ReadEof
    \/ SkipEmptyLine
    \/ ParseFailure
    \/ HandleRequest
    \/ SkipResponse
    \/ SendResponse

SpecLive == Init /\ [][NextLive]_vars /\ WF_vars(NextLive)

\* ======================================================= properties
\* Number of input lines whose loop iteration has run to its end.
Completed == IF pc = "read" THEN Len(inp) ELSE Len(inp) - 1

\* Line k has been through decode and dispatch.
Handled(k) == k < Len(inp) \/ (k = Len(inp) /\ pc # "handle")

\* The decoded message of input line k, when it decodes.
Decodes(k) == ~IsBlank(inp[k]) /\ decode(inp[k]).ok
Msg(k) == decode(inp[k]).req

\* Positions of stdout written while line k was processed, and those of
\* them that are reply lines.
OutputOf(k) == {i \in 1..Len(stdout) : stdout[i].src = k}
RepliesOf(k) == {i \in OutputOf(k) : stdout[i].kind = "response"}
Replies == {i \in 1..Len(stdout) : stdout[i].kind = "response"}

\* Line k is a message that carries an identifier.
HasId(k) == Decodes(k) /\ inp[k].id.t \notin {"absent", "null"}

\* Line k got exactly one reply and that reply echoes the line's id.
OneReplyEchoingId(k) ==
    \E i \in RepliesOf(k) : RepliesOf(k) = {i} /\ stdout[i].doc.id = inp[k].id

\* C1 (as stated): every completed line that decodes to a message with an
\* identifier, whatever its method, got exactly one reply line, and the
\* reply's id is the message's id.
C1_OneReplyPerIdentifiedMessage ==
    \A k \in 1..Completed : HasId(k) => OneReplyEchoingId(k)

\* C1 (amended): every completed line that decodes to a message with an
\* identifier and a method other than notifications/initialized got exactly
\* one reply line, and the reply's id is the message's id.
C1_OneReplyUnlessInitializedNotification ==
    [](
        \A k \in 1..Completed :
            (HasId(k) /\ Msg(k).method # "notifications/initialized") => OneReplyEchoingId(k)
      )

\* Two identified requests with different ids have both been answered.
C1_Witness ==
    /\ Completed >= 2
    /\ HasId(1) /\ HasId(2) /\ inp[1].id # inp[2].id
    /\ Msg(1).method # "notifications/initialized"
    /\ Msg(2).method \notin KnownMethods
    /\ OneReplyEchoingId(1) /\ OneReplyEchoingId(2)

\* C2: a decoded message without an identifier, whatever its method and
\* whether its handler succeeds or fails, leaves no line on stdout.
C2_NoReplyWithoutId ==
    \A k \in 1..Len(inp) : (Decodes(k) /\ ~HasId(k)) => OutputOf(k) = {}

\* The members of a reply document.
HasResult(i) == "result" \in stdout[i].doc.keys
HasError(i) == "error" \in stdout[i].doc.keys

\* C3: every reply line on stdout carries exactly one of result and error.
C3_ResultXorError ==
    [](
        \A i \in Replies : HasResult(i) # HasError(i)
      )

\* A success reply and an error reply have both been written, and a
\* notifications/initialized message (whose response has neither member)
\* has been processed.
C3_Witness ==
    /\ \E i \in Replies : HasResult(i)
    /\ \E i \in Replies : HasError(i)
    /\ \E k \in 1..Completed : Decodes(k) /\ Msg(k).method = "notifications/initialized"

\* A line that is not blank and is not a JsonRpcRequest document.
Malformed(line) ==
    \/ line.form = "text" /\ line.text \notin {"", "  "}
    \/ line.form = "json" /\ (line.jsonrpc.t # "string" \/ line.method.t # "string")

\* A message that is a request to be answered: identifier present, method
\* other than notifications/initialized.
IsRequest(line) ==
    /\ line.form = "json" /\ line.jsonrpc.t = "string" /\ line.method.t = "string"
    /\ line.id.t \notin {"absent", "null"}
    /\ line.method.v # "notifications/initialized"

\* C4: a line that fails to decode leaves nothing on stdout, and the step
\* that handles it leaves the loop running at the next read; after an
\* invalid line followed by a valid request stdout holds exactly one reply,
\* the one for the request.
C4_MalformedLineResilience ==
    /\ [](\A k \in 1..Len(inp) : Malformed(inp[k]) => OutputOf(k) = {})
    /\ []((Len(inp) = 2 /\ Completed = 2 /\ Malformed(inp[1]) /\ IsRequest(inp[2]))
            => (\E i \in Replies : Replies = {i} /\ stdout[i].src = 2
                                   /\ stdout[i].doc.id = inp[2].id))
    /\ [][(status = "running" /\ pc = "handle" /\ Malformed(CurLine))
            => (status' = "running" /\ pc' = "read" /\ stdout' = stdout)]_vars

\* An invalid line and then a request have been processed, and the request
\* was answered.
C4_Witness ==
    /\ Len(inp) = 2 /\ Completed = 2 /\ status = "running"
    /\ Malformed(inp[1]) /\ IsRequest(inp[2])
    /\ Cardinality(Replies) = 1

\* C5: a notifications/initialized message, with or without an identifier,
\* leaves no line on stdout.
C5_InitializedNeverAnswered ==
    [](
        \A k \in 1..Len(inp) :
            (Decodes(k) /\ Msg(k).method = "notifications/initialized") => OutputOf(k) = {}
      )

\* A notifications/initialized message with an identifier and one without
\* have been processed to the end.
C5_Witness ==
    /\ Completed >= 2
    /\ \E k \in 1..Completed : HasId(k) /\ Msg(k).method = "notifications/initialized"
    /\ \E k \in 1..Completed :
          Decodes(k) /\ ~HasId(k) /\ Msg(k).method = "notifications/initialized"

\* The reply to line k is an error reply: id echoed, an error member, no
\* result member.
IsErrorReply(i, k) ==
    /\ stdout[i].doc.id = inp[k].id
    /\ HasError(i) /\ ~HasResult(i)

\* C6: a completed request with an identifier and a method that is none of
\* initialize, tools/list, tools/call, notifications/initialized got an error
\* reply whose code is JSON-RPC's method-not-found code -32601, not the
\* internal-error code of handler failures.
C6_MethodNotFoundCode ==
    \A k \in 1..Completed :
        (HasId(k) /\ Msg(k).method \notin KnownMethods)
            => \E i \in RepliesOf(k) :
                  /\ RepliesOf(k) = {i}
                  /\ IsErrorReply(i, k)
                  /\ stdout[i].doc.error.code = -32601
                  /\ stdout[i].doc.error.code # InternalErrorCode

\* Line k is a tools/call message; its params as call_tool receives them.
IsToolCall(k) == Decodes(k) /\ Msg(k).method = "tools/call"
NoParamsGiven(k) == inp[k].params.kind # "object"
NoToolName(k) == inp[k].params.kind = "object" /\ inp[k].params.name.t # "string"
ToolNameOf(k) == inp[k].params.name.v
RegisteredNames == {"hello_world", "check_policy"}
UnknownToolName(k) ==
    /\ inp[k].params.kind = "object" /\ inp[k].params.name.t = "string"
    /\ ToolNameOf(k) \notin RegisteredNames
\* The tool named by line k is registered and rejects the arguments: the
\* only rejecting tool is check_policy, on a missing policy, action or
\* resource string.
ToolRejects(k) ==
    /\ inp[k].params.kind = "object" /\ inp[k].params.name = JStr("check_policy")
    /\ \E f \in {"policy", "action", "resource"} :
          inp[k].params.arguments.kind # "object" \/ inp[k].params.arguments[f].t # "string"

\* The handler of the tools/call on line k fails, and the message it fails
\* with.
CallFails(k) ==
    IsToolCall(k) /\ (NoParamsGiven(k) \/ NoToolName(k) \/ UnknownToolName(k) \/ ToolRejects(k))
FailureMessage(k) ==
    IF NoParamsGiven(k) THEN [msg |-> "Missing parameters for tool call", arg |-> ""]
    ELSE IF NoToolName(k) THEN [msg |-> "Missing tool name", arg |-> ""]
    ELSE IF UnknownToolName(k) THEN [msg |-> "Unknown tool", arg |-> ToolNameOf(k)]
    ELSE call_tool(Msg(k).params).err

\* The response r is the internal-error conversion of line k's failure.
IsInternalError(r, k) ==
    /\ r.error.some /\ ~r.result.some
    /\ r.error.val.code = -32603
    /\ r.error.val.message = FailureMessage(k)

\* C7: the failure of a tools/call handler (no params, no tool name, unknown
\* tool, tool rejecting its arguments) becomes a response with error code
\* -32603, the failure's message and no result; the reply written for it has
\* an error member with that code and message and no result member; the
\* failing dispatch leaves the loop running, and once the reply is sent the
\* loop is back at reading the next line.
C7_HandlerFailureIsInternalError ==
    /\ []((pc = "send" /\ CallFails(CurNo)) => IsInternalError(response, CurNo))
    /\ [](\A k \in 1..Completed : CallFails(k) =>
            \E i \in RepliesOf(k) :
                /\ RepliesOf(k) = {i}
                /\ HasError(i) /\ ~HasResult(i)
                /\ stdout[i].doc.error.code = -32603
                /\ stdout[i].doc.error.message = FailureMessage(k))
    /\ [][(status = "running" /\ pc = "handle" /\ CallFails(CurNo))
            => (status' = "running" /\ pc' = "send")]_vars
    /\ [][(status = "running" /\ pc = "send" /\ CallFails(CurNo) /\ stdout' # stdout
           /\ flushed' = Len(stdout'))
            => (status' = "running" /\ pc' = "read")]_vars

\* A call rejected by its tool and a call without params have been answered
\* with error replies, and the tools/list request after them has been
\* answered too.
C7_Witness ==
    /\ Completed = 3
    /\ CallFails(1) /\ ToolRejects(1)
    /\ CallFails(2) /\ NoParamsGiven(2)
    /\ Decodes(3) /\ Msg(3).method = "tools/list"
    /\ Cardinality(Replies) = 3

\* C8: a tools/call whose params carry no tool name fails with "Missing tool
\* name", one whose tool name is not registered fails with "Unknown tool";
\* in both cases no tool handler is entered, and the response and the reply
\* written carry an error and no result.
C8_MissingOrUnknownTool ==
    [](
        \A k \in 1..Len(inp) :
            (IsToolCall(k) /\ Handled(k) /\ (NoToolName(k) \/ UnknownToolName(k))) =>
                /\ \A c \in 1..Len(calls) : calls[c].src # k
                /\ (k = Len(inp) /\ pc = "send") =>
                      /\ response.error.some /\ ~response.result.some
                      /\ response.error.val.message.msg =
                            (IF NoToolName(k) THEN "Missing tool name" ELSE "Unknown tool")
                /\ \A i \in RepliesOf(k) :
                      /\ HasError(i) /\ ~HasResult(i)
                      /\ stdout[i].doc.error.message =
                            (IF NoToolName(k) THEN [msg |-> "Missing tool name", arg |-> ""]
                             ELSE [msg |-> "Unknown tool", arg |-> ToolNameOf(k)])
                /\ k <= Completed => RepliesOf(k) # {}
      )

\* A call without a tool name and a call of an unregistered tool have been
\* answered, and a registered tool has been entered by a third call.
C8_Witness ==
    /\ Completed = 3
    /\ \E k \in 1..3 : IsToolCall(k) /\ NoToolName(k) /\ RepliesOf(k) # {}
    /\ \E k \in 1..3 : IsToolCall(k) /\ UnknownToolName(k) /\ RepliesOf(k) # {}
    /\ Len(calls) = 1

\* Line k is a tools/list message.
IsListTools(k) == Decodes(k) /\ Msg(k).method = "tools/list"
ToolsOf(i) == stdout[i].doc.result.v.tools

\* C9: any two tools/list replies of a session carry identical descriptor
\* lists, in registration order (hello_world, check_policy), every
\* descriptor with exactly the members name, description, inputSchema.
C9_ListToolsStable ==
    [](
        \A i, j \in Replies :
            (IsListTools(stdout[i].src) /\ IsListTools(stdout[j].src)) =>
                /\ HasResult(i)
                /\ ToolsOf(i) = ToolsOf(j)
                /\ Len(ToolsOf(i)) = 2
                /\ ToolsOf(i)[1].name = "hello_world"
                /\ ToolsOf(i)[2].name = "check_policy"
                /\ \A t \in 1..Len(ToolsOf(i)) :
                      DOMAIN ToolsOf(i)[t] = {"name", "description", "inputSchema"}
      )

\* Two tools/list requests have been answered with a tool call processed
\* between them.
C9_Witness ==
    /\ Completed = 3
    /\ IsListTools(1) /\ IsToolCall(2) /\ IsListTools(3)
    /\ RepliesOf(1) # {} /\ RepliesOf(3) # {}
    /\ Len(calls) = 1

\* A tracing event with the given message was written to the stream while
\* line k was processed.
Diagnostics(stream, k, msg) ==
    \E i \in 1..Len(stream) : stream[i].src = k /\ stream[i].diag.msg = msg
                              /\ stream[i].kind = "log"

\* C10: every entry of stdout is the serialized response of one decoded
\* input line, at most one entry per line; no tracing event is on stdout,
\* and the decode-failure, unknown-method and handler-error events of the
\* lines processed are on stderr.
C10_StdoutCarriesOnlyReplies ==
    [](
        /\ \A i \in 1..Len(stdout) :
              /\ stdout[i].kind = "response"
              /\ stdout[i].src \in 1..Len(inp)
              /\ Decodes(stdout[i].src)
              /\ stdout[i].doc = encode(handle_request(Msg(stdout[i].src)).response)
              /\ \A j \in 1..Len(stdout) : stdout[j].src = stdout[i].src => j = i
        /\ \A k \in 1..Len(inp) : Handled(k) =>
              /\ Malformed(inp[k]) => Diagnostics(stderr, k, "Failed to parse request")
              /\ (Decodes(k) /\ Msg(k).method \notin KnownMethods)
                    => Diagnostics(stderr, k, "Unknown method")
              /\ CallFails(k) => Diagnostics(stderr, k, "Error handling request")
      )

\* A decode failure, an unknown method and a handler failure have been
\* processed and stdout holds the two replies.
C10_Witness ==
    /\ Completed = 3
    /\ Malformed(inp[1])
    /\ HasId(2) /\ Msg(2).method \notin KnownMethods
    /\ HasId(3) /\ CallFails(3)
    /\ Len(stdout) = 2
    /\ Len(stderr) > Len(Startup) + 3

\* The step writes the reply of the current line to stdout and flushes it.
ReplyDelivered ==
    /\ stdout' = Append(stdout, ReplyEntry(CurNo, response))
    /\ flushed' = Len(stdout')

\* C11: a stream failure is fatal.  A step of the loop at the read that
\* takes no line ends the loop; a step at the send of a response that is to
\* be sent either delivers the reply (written and flushed) or ends the loop
\* with the error; and once run has returned the error no line is read and
\* nothing is written.
C11_StreamFailureIsFatal ==
    /\ [][(status = "running" /\ pc = "read" /\ inp' = inp) => status' # "running"]_vars
    /\ [][(status = "running" /\ pc = "send" /\ ShouldSend(response) /\ ~ReplyDelivered)
            => (status' = "failed" /\ inp' = inp)]_vars
    /\ [][status = "failed"
            => (status' = "failed" /\ inp' = inp /\ stdout' = stdout /\ flushed' = flushed)]_vars

\* The first line was answered and the write of the second reply failed:
\* run has returned the error with the second line unanswered.
C11_Witness ==
    /\ status = "failed" /\ pc = "send"
    /\ Len(inp) = 2
    /\ RepliesOf(1) # {} /\ RepliesOf(2) = {}
    /\ ShouldSend(response)

\* A line that is not blank and does not have the Request shape: not a JSON
\* document, no method name, or a protocol tag other than the literal "2.0".
NotRequestShape(line) ==
    /\ ~(line.form = "text" /\ line.text \in {"", "  "})
    /\ \/ line.form = "text"
       \/ line.method.t # "string"
       \/ line.jsonrpc # JStr("2.0")

\* C12: a line that does not have the Request shape (in particular one
\* whose protocol tag is not "2.0", or one without a method name) is a
\* decode error: it is logged as a parse failure, never dispatched to a
\* handler, and leaves nothing on stdout.
C12_DecodeRejectsOtherShapes ==
    \A k \in 1..Len(inp) :
        (Handled(k) /\ NotRequestShape(inp[k])) =>
            /\ OutputOf(k) = {}
            /\ Diagnostics(stderr, k, "Failed to parse request")
            /\ ~Diagnostics(stderr, k, "Initializing Aegis MCP Server")
            /\ ~Diagnostics(stderr, k, "Listing tools")
            /\ k = Len(inp) => pc # "send"

\* The descriptor that tools/list publishes for the tool named by line k,
\* and the arguments line k passes.
CalledTool(k) == CHOOSE t \in {Tools[i] : i \in 1..Len(Tools)} : t.name = ToolNameOf(k)
CallsRegisteredTool(k) ==
    /\ IsToolCall(k) /\ inp[k].params.kind = "object" /\ inp[k].params.name.t = "string"
    /\ \E i \in 1..Len(Tools) : Tools[i].name = ToolNameOf(k)
ArgsOf(k) == inp[k].params.arguments

\* The arguments the tool's input schema lists as required and the call on
\* line k leaves out.
Required(k) == {CalledTool(k).input_schema.required[i] :
                    i \in 1..Len(CalledTool(k).input_schema.required)}
Omitted(k) == {f \in Required(k) : ArgsOf(k).kind # "object" \/ ArgsOf(k)[f].t = "absent"}

\* The text of the error that names a missing field.
MissingText(f) ==
    CASE f = "name" -> "Missing name"
      [] f = "policy" -> "Missing policy"
      [] f = "action" -> "Missing action"
      [] f = "resource" -> "Missing resource"

\* C13: a completed call of a registered tool that omits an argument its
\* schema requires got an error reply whose message names an omitted field;
\* a call that passes every required argument got a result, whether or not
\* it passes the optional ones.
C13_RequiredArgumentsEnforced ==
    \A k \in 1..Completed :
        CallsRegisteredTool(k) =>
            \E i \in RepliesOf(k) :
                IF Omitted(k) # {}
                THEN /\ HasError(i) /\ ~HasResult(i)
                     /\ \E f \in Omitted(k) : stdout[i].doc.error.message.msg = MissingText(f)
                ELSE HasResult(i) /\ ~HasError(i)

\* C14: a tools/call that names a registered tool and whose params contain
\* no arguments value does not enter the tool handler, and once completed it
\* has been answered with an error reply and no result.
C14_ArgumentsValueRequired ==
    \A k \in 1..Len(inp) :
        (Handled(k) /\ CallsRegisteredTool(k) /\ ArgsOf(k).kind = "absent") =>
            /\ \A c \in 1..Len(calls) : calls[c].src # k
            /\ k <= Completed =>
                  \E i \in RepliesOf(k) : HasError(i) /\ ~HasResult(i)

\* C15: on streams that do not fail, run eventually returns Ok(()): the loop
\* reaches the end of its finite input with every line read fully processed.
C15_CleanExitAtEndOfInput ==
    <>(status = "done" /\ pc = "read" /\ Completed = Len(inp))

\* run has returned Ok after an input of a blank line, a line that fails
\* to decode and a call whose handler fails.
C15_Witness ==
    /\ status = "done"
    /\ Len(inp) = 3
    /\ IsBlank(inp[1])
    /\ Malformed(inp[2])
    /\ CallFails(3)

\* C16: processing is sequential per line.  A line is read only at the head
\* of the loop with everything written so far flushed, and the read writes
\* nothing; a write appends one reply, that of the line read last; so the
\* replies on stdout are in the order of the lines that caused them, at most
\* one per line.
C16_SequentialPerLine ==
    /\ [][inp' # inp => (pc = "read" /\ flushed = Len(stdout) /\ stdout' = stdout
                         /\ Len(inp') = Len(inp) + 1)]_vars
    /\ [][stdout' # stdout => (inp' = inp /\ pc = "send"
                               /\ stdout' = Append(stdout, ReplyEntry(Len(inp), response)))]_vars
    /\ [](\A i, j \in 1..Len(stdout) : i < j => stdout[i].src < stdout[j].src)
    /\ [](\A i \in 1..Len(stdout) : stdout[i].src \in 1..Len(inp))

\* Lines 1 and 3 have been answered, in that order, around a second line
\* that got no reply, and both replies are flushed.
C16_Witness ==
    /\ Completed = 3 /\ status = "running"
    /\ Len(stdout) = 2 /\ flushed = 2
    /\ stdout[1].src = 1 /\ stdout[2].src = 3
    /\ RepliesOf(2) = {}

\* Two reply documents are the same: the same members with the same values.
SameDoc(a, b) ==
    /\ a.keys = b.keys
    /\ a.jsonrpc = b.jsonrpc
    /\ a.id = b.id
    /\ a.error = b.error
    /\ a.result = b.result

\* Lines k and l were treated alike: both unanswered, or both answered once
\* with the same document.
SameOutcome(k, l) ==
    /\ Cardinality(RepliesOf(k)) = Cardinality(RepliesOf(l))
    /\ Cardinality(RepliesOf(k)) <= 1
    /\ \A i \in RepliesOf(k) : \A j \in RepliesOf(l) : SameDoc(stdout[i].doc, stdout[j].doc)

\* C17: the session holds no state across lines.  Two completed occurrences
\* of the same line in one session, whatever was processed before each of
\* them (nothing, or any other lines, an initialize request or a
\* notifications/initialized message among them), were treated alike: the
\* same number of replies and the same reply document.
C17_NoStateAcrossLines ==
    [](\A k, l \in 1..Completed : inp[k] = inp[l] => SameOutcome(k, l))

\* A tools/list request was answered before and after an initialize request
\* with the same reply.
C17_Witness ==
    /\ Completed = 3
    /\ IsListTools(1) /\ inp[3] = inp[1]
    /\ Decodes(2) /\ Msg(2).method = "initialize"
    /\ RepliesOf(1) # {} /\ RepliesOf(3) # {}
    /\ SameOutcome(1, 3)

\* An empty or whitespace-only line.
BlankText(line) == line.form = "text" /\ line.text \in {"", "  "}

\* Entries of stderr written while line k was processed.
DiagnosticsOf(k) == {i \in 1..Len(stderr) : stderr[i].src = k}

\* C18: an empty or whitespace-only line is filtered before decode: it
\* leaves nothing on stdout and no tracing event (neither the "Received"
\* event that precedes decode nor a parse failure), and the step that
\* handles it puts the loop back at the read, still running.
C18_BlankLinesFiltered ==
    /\ [](\A k \in 1..Len(inp) :
            BlankText(inp[k]) => (OutputOf(k) = {} /\ DiagnosticsOf(k) = {}))
    /\ [][(status = "running" /\ pc = "handle" /\ BlankText(CurLine))
            => (status' = "running" /\ pc' = "read" /\ stdout' = stdout /\ stderr' = stderr
                /\ calls' = calls)]_vars

\* A whitespace-only line and then an empty line have been processed and
\* the loop is ready for the next line.
C18_Witness ==
    /\ Completed = 2 /\ Len(inp) = 2 /\ status = "running"
    /\ inp[1].text = "  " /\ BlankText(inp[1])
    /\ inp[2].text = "" /\ BlankText(inp[2])

\* The tool names in the result of tools/list.
ListedNames ==
    {list_tools.val.v.tools[i].name : i \in DOMAIN list_tools.val.v.tools}

\* Line k is a tools/call with a string tool name.
NamesTool(k) ==
    IsToolCall(k) /\ inp[k].params.kind = "object" /\ inp[k].params.name.t = "string"

\* Reply i is the "Unknown tool" error.
UnknownToolReply(i) ==
    HasError(i) /\ stdout[i].doc.error.message.msg = "Unknown tool"

\* C19: the names tools/list returns are the names tools/call dispatches.  A
\* completed call of a listed name entered the handler of that tool and was
\* not answered with "Unknown tool"; a completed call of any other string
\* name entered no handler and was answered with "Unknown tool".
C19_ListedNamesAreDispatched ==
    [](\A k \in 1..Completed : NamesTool(k) =>
          /\ RepliesOf(k) # {}
          /\ IF ToolNameOf(k) \in ListedNames
             THEN /\ \A i \in RepliesOf(k) : ~UnknownToolReply(i)
                  /\ \E c \in 1..Len(calls) : calls[c] = [src |-> k, tool |-> ToolNameOf(k)]
             ELSE /\ \A i \in RepliesOf(k) : UnknownToolReply(i)
                  /\ \A c \in 1..Len(calls) : calls[c].src # k)

\* A call of check_policy and a call of an unlisted name have been answered.
C19_Witness ==
    /\ Completed = 2
    /\ NamesTool(1) /\ ToolNameOf(1) = "check_policy" /\ RepliesOf(1) # {}
    /\ NamesTool(2) /\ ToolNameOf(2) \notin ListedNames
    /\ \E i \in RepliesOf(2) : UnknownToolReply(i)

\* The id a reply to this line is to carry: the line's identifier, or null
\* when the line has none (id omitted or null).
ExpectedId(line) == IF line.id.t \in {"absent", "null"} THEN JNull ELSE line.id

\* C20: every reply line has an id member, and its value is the identifier
\* of the line that caused the reply, or null when that line has no
\* identifier.
C20_ReplyIdIsOwnIdOrNull ==
    [](\A i \in Replies :
          /\ "id" \in stdout[i].doc.keys
          /\ stdout[i].doc.id = ExpectedId(inp[stdout[i].src]))

\* Replies to a message with an explicit null id, to one with the id
\* omitted and to one with a string id are on stdout.
C20_Witness ==
    /\ Completed = 3
    /\ inp[1].id.t = "null" /\ inp[2].id.t = "absent" /\ inp[3].id = JStr("a")
    /\ \E i \in RepliesOf(1) : stdout[i].doc.id = JNull
    /\ \E i \in RepliesOf(2) : stdout[i].doc.id = JNull
    /\ \E i \in RepliesOf(3) : stdout[i].doc.id = JStr("a")

====
